---- MODULE Spec2Model ----
(***************************************************************************)
(* Invasion percolation (bagustris/tutorial-python).                       *)
(*                                                                         *)
(* The repository holds two notebooks with the same program:               *)
(*   "invperc"  src/unnamed/part_000   : the first implementation          *)
(*   "testing"  src/code/testing.ipynb : the same functions with the       *)
(*              argument assertions of percolation, the filled-cell test   *)
(*              of is_adjacent, and the test functions.                    *)
(* The variable nb says which notebook's definitions are loaded.           *)
(*                                                                         *)
(* Spec   is the driver percolation(size, spread), one step per loop       *)
(*        iteration.                                                       *)
(* FnSpec applies on_boundary, is_adjacent, choose_next and fill to         *)
(*        arbitrary grids, filled cells anywhere.                          *)
(***************************************************************************)
EXTENDS Integers, Sequences, FiniteSets, TLC

VARIABLES nb, size, spread, grid, chosen, pc, exc, iters, density, call, ret,
          everything, funcs, tally, called

\* the state of run_all_tests
run_vars == <<everything, funcs, tally, called>>

vars == <<nb, size, spread, grid, chosen, pc, exc, iters, density, call, ret,
          everything, funcs, tally, called>>

(***************************************************************************)
(* Bounds.                                                                 *)
(***************************************************************************)
\* Largest spread argument (resistance values are 1..spread).
MaxSpread == 2
\* Largest number of cells of a grid the model builds (5 x 5).
MaxCells == 25
\* Largest number of cells of a grid given to the pure functions (3 x 3).
MaxFnCells == 9

Notebooks == {"invperc", "testing"}

\* The arguments percolation is called with.
SizeArgs == {s \in -1..MaxCells : s * s <= MaxCells}
SpreadArgs == -1..MaxSpread

(***************************************************************************)
(* Grids: a numpy 2-D integer array, its shape and its cells.              *)
(***************************************************************************)
Cells(n) == (0..(n - 1)) \X (0..(n - 1))

NoGrid == [shape |-> <<>>, at |-> <<>>]
NoLoc == <<>>
NoCall == [fn |-> "none", grid |-> NoGrid]
NoTally == [success |-> 0, failure |-> 0, error |-> 0]

Max(S) == CHOOSE m \in S : \A v \in S : v <= m

\* grid.min() in the place of grid.max()
grid_min(g) ==
    CHOOSE m \in {g.at[c] : c \in DOMAIN g.at} : \A c \in DOMAIN g.at : m <= g.at[c]

\* grid.max()
grid_max(g) == Max({g.at[c] : c \in DOMAIN g.at})

\* numpy index normalisation of one coordinate along an axis of length n:
\* -n..-1 wrap to the end, anything else outside 0..n-1 is an IndexError (-1).
np_index(i, n) ==
    IF 0 <= i /\ i < n THEN i
    ELSE IF -n <= i /\ i < 0 THEN i + n
    ELSE -1

np_valid(g, loc) ==
    /\ np_index(loc[1], g.shape[1]) >= 0
    /\ np_index(loc[2], g.shape[2]) >= 0

np_loc(g, loc) == <<np_index(loc[1], g.shape[1]), np_index(loc[2], g.shape[2])>>

\* grid[x, y]: the cell numpy reads for that index
np_get(g, loc) == g.at[np_loc(g, loc)]

(***************************************************************************)
(* make_grid: np.random.randint(low=1, high=spread+1, size=(size, size)).  *)
(* Every cell is drawn independently from 1..spread.  Grids of up to 3 x 3 *)
(* are enumerated in full.  Of the larger grids the draws enumerated are   *)
(* those in which the four cells next to the centre are free, the other    *)
(* interior cells share one value and the cells of the outermost ring      *)
(* share one value.                                                        *)
(***************************************************************************)
Interior(n) == {c \in Cells(n) : c[1] > 0 /\ c[2] > 0 /\ c[1] < n - 1 /\ c[2] < n - 1}

NearCentre(n) ==
    LET m == n \div 2
    IN  {<<m - 1, m>>, <<m + 1, m>>, <<m, m - 1>>, <<m, m + 1>>} \cap Interior(n)

\* randint(low=0, ...): draws that include the filled marker
Draws_from_zero(n, sp) == [Cells(n) -> 0..sp]

Draws(n, sp) ==
    IF n <= 3
    THEN [Cells(n) -> 1..sp]
    ELSE {[c \in Cells(n) |-> IF c \in NearCentre(n) THEN near[c]
                              ELSE IF c \in Interior(n) THEN e ELSE f] :
             near \in [NearCentre(n) -> 1..sp], e \in 1..sp, f \in 1..sp}

\* randint raises ValueError for a negative dimension and for an empty range
\* 1..spread; asked for no cells at all (size 0) and an empty range, it raises
\* or returns the empty array, depending on the numpy release.
make_grid_raises(sz, sp) == sz < 0 \/ sp < 1

make_grid_returns(sz, sp) == sz >= 0 /\ (sp >= 1 \/ sz = 0)

make_grid(sz, sp) == {[shape |-> <<sz, sz>>, at |-> a] : a \in Draws(sz, sp)}

(***************************************************************************)
(* fill: grid[loc] = 0.                                                    *)
(***************************************************************************)
fill_raises(g, loc) == ~np_valid(g, loc)

\* fill that forgets the assignment
fill_noop(g, loc) == g

\* fill that writes grid[loc[0]] = 0, the whole row
fill_row(g, loc) ==
    [g EXCEPT !.at = [c \in DOMAIN g.at |->
                         IF c[1] = np_index(loc[1], g.shape[1]) THEN 0 ELSE g.at[c]]]

\* fill that writes grid[:, loc[1]] = 0, the whole column
fill_column(g, loc) ==
    [g EXCEPT !.at = [c \in DOMAIN g.at |->
                         IF c[2] = np_index(loc[2], g.shape[2]) THEN 0 ELSE g.at[c]]]

fill(g, loc) == [g EXCEPT !.at[np_loc(g, loc)] = 0]

\* The call fill(grid, loc): the exception raised, if any, and the grid after it.
fill_call(g, loc) ==
    IF fill_raises(g, loc)
    THEN [exc |-> "IndexError", grid |-> g]
    ELSE [exc |-> "none", grid |-> fill(g, loc)]

(***************************************************************************)
(* on_boundary                                                             *)
(***************************************************************************)
\* on_boundary that tests the near edges only
on_boundary_near(g, loc) == (loc[1] = 0) \/ (loc[2] = 0)

\* on_boundary that compares with the shape instead of shape - 1
on_boundary_off_by_one(g, loc) ==
    (loc[1] = 0) \/ (loc[2] = 0) \/ (loc[1] = g.shape[1]) \/ (loc[2] = g.shape[2])

\* on_boundary that tests the first and last row only
on_boundary_rows(g, loc) == (loc[1] = 0) \/ (loc[1] = g.shape[1] - 1)

on_boundary(g, loc) ==
    LET grid_x == g.shape[1]
        grid_y == g.shape[2]
        loc_x == loc[1]
        loc_y == loc[2]
    IN  (loc_x = 0) \/ (loc_y = 0) \/ (loc_x = grid_x - 1) \/ (loc_y = grid_y - 1)

(***************************************************************************)
(* Python floats: IEEE 754 binary64, round to nearest, ties to even.  A    *)
(* float is its significand, MantissaBits bits with the most significant   *)
(* first, and the exponent of its last bit:                                *)
(*     value = (bits read as a binary number) * 2^exp.                     *)
(* Only the floats calculate_density needs: 0 and the positive normal      *)
(* ones.                                                                   *)
(***************************************************************************)
MantissaBits == 53

FloatZero == [bits |-> [i \in 1..MantissaBits |-> 0], exp |-> 0]

\* number of binary digits of k >= 0 (0 has none)
bit_length(k) == Cardinality({j \in 0..30 : 2^j <= k})

\* the next float up: one unit in the last place added to the significand
\* (a bit flips when every bit after it is 1)
float_succ(f) ==
    IF \A i \in 1..MantissaBits : f.bits[i] = 1
    THEN [bits |-> [i \in 1..MantissaBits |-> IF i = 1 THEN 1 ELSE 0],
          exp |-> f.exp + 1]
    ELSE [bits |-> [i \in 1..MantissaBits |->
                      IF \A j \in (i + 1)..MantissaBits : f.bits[j] = 1
                      THEN 1 - f.bits[i] ELSE f.bits[i]],
          exp |-> f.exp]

\* the next float down (a bit flips when every bit after it is 0)
float_pred(f) ==
    IF \A i \in 2..MantissaBits : f.bits[i] = 0
    THEN [bits |-> [i \in 1..MantissaBits |-> 1], exp |-> f.exp - 1]
    ELSE [bits |-> [i \in 1..MantissaBits |->
                      IF \A j \in (i + 1)..MantissaBits : f.bits[j] = 0
                      THEN 1 - f.bits[i] ELSE f.bits[i]],
          exp |-> f.exp]

\* float(k) for an integer 0 <= k < 2^30: exact
float_of_int(k) ==
    IF k = 0 THEN FloatZero
    ELSE LET len == bit_length(k)
         IN  [bits |-> [i \in 1..MantissaBits |->
                           IF i <= len THEN (k \div 2^(len - i)) % 2 ELSE 0],
              exp |-> len - MantissaBits]

\* one step of the long division by n: the next quotient bit and remainder
div_step(prev, n) ==
    IF 2 * prev.r >= n
    THEN [bits |-> Append(prev.bits, 1), r |-> 2 * prev.r - n]
    ELSE [bits |-> Append(prev.bits, 0), r |-> 2 * prev.r]

\* the quotient bits q with remainder q.r, last bit worth 2^e, rounded
div_round(q, n, e) ==
    IF 2 * q.r > n \/ (2 * q.r = n /\ q.bits[MantissaBits] = 1)
    THEN float_succ([bits |-> q.bits, exp |-> e])
    ELSE [bits |-> q.bits, exp |-> e]

\* k / n for integers 0 <= k <= n, 1 <= n: the quotient rounded to a float
float_div(k, n) ==
    IF k = 0 THEN FloatZero
    ELSE
    LET s == CHOOSE t \in 0..30 : k * 2^t >= n /\ (t = 0 \/ k * 2^(t - 1) < n)
        q[i \in 1..MantissaBits] ==
            IF i = 1
            THEN [bits |-> <<1>>, r |-> k * 2^s - n]
            ELSE CHOOSE next \in {div_step(prev, n) : prev \in {q[i - 1]}} : TRUE
    IN  CHOOSE f \in {div_round(last, n, e) :
                         last \in {q[MantissaBits]},
                         e \in {-(MantissaBits - 1) - s}} : TRUE

\* one step of the multiplication by n, from the last bit b: digit and carry
mul_step(prev, b, n) ==
    [bits |-> <<(b * n + prev.carry) % 2>> \o prev.bits,
     carry |-> (b * n + prev.carry) \div 2]

\* the exact product, p.carry in front of p.bits, last bit worth 2^e, rounded
mul_round(p, e) ==
    LET extra == bit_length(p.carry)
        product == [i \in 1..(extra + MantissaBits) |->
                      IF i <= extra THEN (p.carry \div 2^(extra - i)) % 2
                      ELSE p.bits[i - extra]]
        down == [bits |-> [i \in 1..MantissaBits |-> product[i]], exp |-> e + extra]
        guard == IF extra >= 1 THEN product[MantissaBits + 1] ELSE 0
        sticky == \E i \in (MantissaBits + 2)..(extra + MantissaBits) : product[i] = 1
    IN  IF guard = 1 /\ (sticky \/ product[MantissaBits] = 1)
        THEN float_succ(down)
        ELSE down

\* f * n for a float f > 0 and an integer 1 <= n < 2^20: the exact product
\* rounded to a float
float_mul(f, n) ==
    LET p[i \in 1..(MantissaBits + 1)] ==
            IF i = MantissaBits + 1
            THEN [bits |-> <<>>, carry |-> 0]
            ELSE CHOOSE next \in {mul_step(prev, f.bits[i], n) : prev \in {p[i + 1]}} : TRUE
    IN  CHOOSE r \in {mul_round(all, f.exp) : all \in {p[1]}} : TRUE

\* 0.0 < f and f <= 1.0
float_positive(f) == \E i \in 1..MantissaBits : f.bits[i] = 1

float_le_one(f) ==
    \/ ~float_positive(f)
    \/ f.exp < -(MantissaBits - 1)
    \/ f = float_of_int(1)

(***************************************************************************)
(* calculate_density: filled = np.sum(grid == 0); return filled/grid.size  *)
(***************************************************************************)
\* calculate_density that counts the cells still unfilled
calculate_density_unfilled(g) ==
    CHOOSE d \in {float_div(filled, size_) :
                     filled \in {Cardinality({c \in DOMAIN g.at : g.at[c] # 0})},
                     size_ \in {g.shape[1] * g.shape[2]}} : TRUE

calculate_density(g) ==
    CHOOSE d \in {float_div(filled, size_) :
                     filled \in {Cardinality({c \in DOMAIN g.at : g.at[c] = 0})},
                     size_ \in {g.shape[1] * g.shape[2]}} : TRUE

(***************************************************************************)
(* is_adjacent, in its two versions.                                       *)
(***************************************************************************)
is_adjacent_invperc(g, loc) ==
    LET x == loc[1]
        y == loc[2]
        max_x == g.shape[1]
        max_y == g.shape[2]
    IN  IF (x > 0) /\ (np_get(g, <<x - 1, y>>) = 0) THEN TRUE
        ELSE IF (y > 0) /\ (np_get(g, <<x, y - 1>>) = 0) THEN TRUE
        ELSE IF (x < max_x - 1) /\ (np_get(g, <<x + 1, y>>) = 0) THEN TRUE
        ELSE IF (y < max_y - 1) /\ (np_get(g, <<x, y + 1>>) = 0) THEN TRUE
        ELSE FALSE

is_adjacent_testing(g, loc) ==
    LET x == loc[1]
        y == loc[2]
        max_x == g.shape[1]
        max_y == g.shape[2]
    IN  IF np_get(g, loc) = 0 THEN FALSE
        ELSE IF (x > 0) /\ (np_get(g, <<x - 1, y>>) = 0) THEN TRUE
        ELSE IF (y > 0) /\ (np_get(g, <<x, y - 1>>) = 0) THEN TRUE
        ELSE IF (x < max_x - 1) /\ (np_get(g, <<x + 1, y>>) = 0) THEN TRUE
        ELSE IF (y < max_y - 1) /\ (np_get(g, <<x, y + 1>>) = 0) THEN TRUE
        ELSE FALSE

\* is_adjacent without the look to the left
is_adjacent_no_left(n, g, loc) ==
    /\ ~(n = "testing" /\ np_get(g, loc) = 0)
    /\ \/ loc[1] > 0 /\ np_get(g, <<loc[1] - 1, loc[2]>>) = 0
       \/ loc[1] < g.shape[1] - 1 /\ np_get(g, <<loc[1] + 1, loc[2]>>) = 0
       \/ loc[2] < g.shape[2] - 1 /\ np_get(g, <<loc[1], loc[2] + 1>>) = 0

\* is_adjacent that also looks at the four diagonal cells
is_adjacent_diagonal(n, g, loc) ==
    /\ ~(n = "testing" /\ np_get(g, loc) = 0)
    /\ \E d \in (-1..1) \X (-1..1) :
          /\ d # <<0, 0>>
          /\ <<loc[1] + d[1], loc[2] + d[2]>> \in (0..(g.shape[1] - 1)) \X (0..(g.shape[2] - 1))
          /\ np_get(g, <<loc[1] + d[1], loc[2] + d[2]>>) = 0

is_adjacent(n, g, loc) ==
    IF n = "testing" THEN is_adjacent_testing(g, loc) ELSE is_adjacent_invperc(g, loc)

(***************************************************************************)
(* choose_next: the row-major scan keeping the running minimum `value` and *)
(* the list `candidates`, then random.choice(candidates).                  *)
(***************************************************************************)
\* the scan without the test for an already filled cell
scan_cell_no_skip(n, g, acc, loc) ==
    IF is_adjacent(n, g, loc)
    THEN IF np_get(g, loc) < acc.value
         THEN [value |-> np_get(g, loc), candidates |-> <<loc>>]
         ELSE IF np_get(g, loc) = acc.value
              THEN [acc EXCEPT !.candidates = Append(@, loc)]
              ELSE acc
    ELSE acc

\* the scan without the adjacency test
scan_cell_not_adjacent(n, g, acc, loc) ==
    IF np_get(g, loc) = 0 THEN acc
    ELSE IF np_get(g, loc) < acc.value
         THEN [value |-> np_get(g, loc), candidates |-> <<loc>>]
         ELSE IF np_get(g, loc) = acc.value
              THEN [acc EXCEPT !.candidates = Append(@, loc)]
              ELSE acc

\* the scan that keeps only the last of the tied cells
scan_cell_keep_last(n, g, acc, loc) ==
    IF np_get(g, loc) = 0 THEN acc
    ELSE IF is_adjacent(n, g, loc)
         THEN IF np_get(g, loc) <= acc.value
              THEN [value |-> np_get(g, loc), candidates |-> <<loc>>]
              ELSE acc
         ELSE acc

scan_cell(n, g, acc, loc) ==
    IF np_get(g, loc) = 0 THEN acc
    ELSE IF is_adjacent(n, g, loc)
         THEN IF np_get(g, loc) < acc.value
              THEN [value |-> np_get(g, loc), candidates |-> <<loc>>]
              ELSE IF np_get(g, loc) = acc.value
                   THEN [acc EXCEPT !.candidates = Append(@, loc)]
                   ELSE acc
         ELSE acc

\* state[k] is (value, candidates) after the two nested loops have visited k
\* cells, the k-th cell being ((k-1) div dim_y, (k-1) mod dim_y); state[k-1]
\* is computed once and bound to acc.
scan(n, g) ==
    LET dim_x == g.shape[1]
        dim_y == g.shape[2]
        state[k \in 0..(dim_x * dim_y)] ==
            IF k = 0
            THEN [value |-> 1 + grid_max(g), candidates |-> <<>>]
            ELSE CHOOSE next \in
                    {scan_cell(n, g, acc, <<(k - 1) \div dim_y, (k - 1) % dim_y>>) :
                        acc \in {state[k - 1]}} : TRUE
    IN  state[dim_x * dim_y]

choose_next_candidates(n, g) == scan(n, g).candidates

\* random.choice(seq) picks one position of a non-empty sequence, every
\* position with the same probability, and raises IndexError on an empty one.
random_choice_raises(seq) == Len(seq) = 0

\* always the first element
random_choice_first(seq) == {1}

random_choice(seq) == 1..Len(seq)

\* return random.choice(candidates): the location returned, or the exception
choose_next_return(candidates) ==
    IF random_choice_raises(candidates)
    THEN {[exc |-> "IndexError", loc |-> NoLoc]}
    ELSE {[exc |-> "none", loc |-> candidates[i]] : i \in random_choice(candidates)}

\* The outcomes of choose_next(grid): the scan, then the return statement.
choose_next(n, g) ==
    UNION {choose_next_return(candidates) :
              candidates \in {choose_next_candidates(n, g)}}

\* choose_next that marks the cells it visits
choose_next_grid_marks(n, g) == [g EXCEPT !.at = [c \in DOMAIN g.at |-> 0]]

\* The grid after choose_next(grid) has run, returned or raised: choose_next
\* and is_adjacent read grid.max(), grid.shape and grid[x, y], and hold no
\* assignment to grid or to one of its cells.
choose_next_grid(n, g) == g

(***************************************************************************)
(* percolation                                                             *)
(***************************************************************************)
\* the two assert statements of the testing notebook
assert_size(sz) == (sz > 0) /\ (sz % 2 = 1)
assert_spread(sp) == sp > 0

has_asserts(n) == n = "testing"

\* the seed in the corner
middle_zero(n, sz) == 0

\* size // 2 (invperc), int(size/2) (testing)
middle(n, sz) ==
    IF n = "testing" /\ sz < 0 THEN -((-sz) \div 2) ELSE sz \div 2

\* The lines before the loop: the asserts (testing), grid = make_grid(...),
\* chosen = (middle, middle), fill(grid, chosen).  Each outcome is the
\* exception raised, if any, with the grid and the location built so far.
percolation_setup(n, sz, sp) ==
    IF has_asserts(n) /\ ~(assert_size(sz) /\ assert_spread(sp))
    THEN {[exc |-> "AssertionError", grid |-> NoGrid, chosen |-> NoLoc]}
    ELSE (IF make_grid_raises(sz, sp)
          THEN {[exc |-> "ValueError", grid |-> NoGrid, chosen |-> NoLoc]}
          ELSE {})
         \cup
         (IF make_grid_returns(sz, sp)
          THEN {LET c == <<middle(n, sz), middle(n, sz)>>
                IN  IF fill_raises(g, c)
                    THEN [exc |-> "IndexError", grid |-> g, chosen |-> c]
                    ELSE [exc |-> "none", grid |-> fill(g, c), chosen |-> c] :
                   g \in make_grid(sz, sp)}
          ELSE {})

\* percolation raises before its loop.
SetupRaise ==
    /\ pc = "call"
    /\ \E o \in percolation_setup(nb, size, spread) :
         /\ o.exc # "none"
         /\ pc' = "raised"
         /\ exc' = o.exc
         /\ grid' = o.grid
         /\ chosen' = o.chosen
    /\ UNCHANGED <<nb, size, spread, iters, density, call, ret>>
    /\ UNCHANGED run_vars

\* percolation reaches its loop with the centre filled.
Setup ==
    /\ pc = "call"
    /\ \E o \in percolation_setup(nb, size, spread) :
         /\ o.exc = "none"
         /\ pc' = "growing"
         /\ grid' = o.grid
         /\ chosen' = o.chosen
    /\ UNCHANGED <<nb, size, spread, exc, iters, density, call, ret>>
    /\ UNCHANGED run_vars

\* one iteration of: while not on_boundary(grid, chosen)
Step ==
    /\ pc = "growing"
    /\ ~on_boundary(grid, chosen)
    /\ \E o \in choose_next(nb, grid) :
         IF o.exc # "none"
         THEN /\ pc' = "raised"
              /\ exc' = o.exc
              /\ grid' = choose_next_grid(nb, grid)
              /\ UNCHANGED <<chosen, iters>>
         ELSE /\ chosen' = o.loc
              /\ grid' = fill(choose_next_grid(nb, grid), o.loc)
              /\ iters' = iters + 1
              /\ UNCHANGED <<pc, exc>>
    /\ UNCHANGED <<nb, size, spread, density, call, ret>>
    /\ UNCHANGED run_vars

\* return grid, calculate_density(grid)
Return ==
    /\ pc = "growing"
    /\ on_boundary(grid, chosen)
    /\ pc' = "done"
    /\ density' = calculate_density(grid)
    /\ UNCHANGED <<nb, size, spread, grid, chosen, exc, iters, call, ret>>
    /\ UNCHANGED run_vars

Init ==
    /\ nb \in Notebooks
    /\ size \in SizeArgs
    /\ spread \in SpreadArgs
    /\ grid = NoGrid
    /\ chosen = NoLoc
    /\ pc = "call"
    /\ exc = "none"
    /\ iters = 0
    /\ density = <<>>
    /\ call = NoCall
    /\ ret = <<>>
    /\ everything = <<>>
    /\ funcs = <<>>
    /\ tally = NoTally
    /\ called = <<>>

Next == SetupRaise \/ Setup \/ Step \/ Return

Spec == Init /\ [][Next]_vars

\* percolation is straight-line sequential code: a call that can take a step
\* takes it.
LiveSpec == Spec /\ WF_vars(Next)

(***************************************************************************)
(* The functions on their own: the arrays of the notebook's tests and any  *)
(* grid of up to MaxFnCells cells whose cells are filled (0), lowest (1)   *)
(* or highest (sp) for some sp up to MaxSpread.  A call is recorded with   *)
(* the grid it was given; on_boundary and is_adjacent are applied to every *)
(* in-bounds location at once.                                             *)
(***************************************************************************)
FnSizes == {n \in 1..MaxFnCells : n * n <= MaxFnCells}

\* np.array(rows)
np_array(rows) ==
    [shape |-> <<Len(rows), Len(rows[1])>>,
     at |-> [c \in (0..(Len(rows) - 1)) \X (0..(Len(rows[1]) - 1)) |->
                rows[c[1] + 1][c[2] + 1]]]

\* the arrays of test_on_boundary, test_is_adjacent and test_choose_next
TestGrids ==
    {np_array(<<<<1, 2, 3>>, <<4, 5, 6>>, <<7, 8, 9>>>>),
     np_array(<<<<0, 1, 2>>, <<3, 4, 5>>, <<6, 7, 8>>>>),
     np_array(<<<<9, 1, 9>>, <<9, 0, 9>>, <<9, 9, 9>>>>),
     np_array(<<<<9, 2, 9>>, <<9, 0, 9>>, <<9, 1, 9>>>>)}

FnGrids(n, sp) == {[shape |-> <<n, n>>, at |-> a] : a \in [Cells(n) -> {0, 1, sp}]}

GridCells(g) == (0..(g.shape[1] - 1)) \X (0..(g.shape[2] - 1))

CallOnBoundary ==
    /\ pc = "fn"
    /\ call.fn = "none"
    /\ call' = [fn |-> "on_boundary", grid |-> grid]
    /\ ret' = [loc \in GridCells(grid) |-> on_boundary(grid, loc)]
    /\ UNCHANGED <<nb, size, spread, grid, chosen, pc, exc, iters, density>>
    /\ UNCHANGED run_vars

CallIsAdjacent ==
    /\ pc = "fn"
    /\ call.fn = "none"
    /\ \E n \in Notebooks :
         /\ nb' = n
         /\ call' = [fn |-> "is_adjacent", grid |-> grid]
         /\ ret' = [loc \in GridCells(grid) |-> is_adjacent(n, grid, loc)]
    /\ UNCHANGED <<size, spread, grid, chosen, pc, exc, iters, density>>
    /\ UNCHANGED run_vars

CallChooseNext ==
    /\ pc = "fn"
    /\ call.fn = "none"
    /\ \E n \in Notebooks :
         \E o \in choose_next(n, grid) :
            /\ nb' = n
            /\ call' = [fn |-> "choose_next", grid |-> grid]
            /\ ret' = o
            /\ grid' = choose_next_grid(n, grid)
    /\ UNCHANGED <<size, spread, chosen, pc, exc, iters, density>>
    /\ UNCHANGED run_vars

\* the locations fill is given: in the grid, and up to two cells off each side
FillLocs(g) == ((-(g.shape[1] + 1))..g.shape[1]) \X ((-(g.shape[2] + 1))..g.shape[2])

\* fill applied to the grid at every such location, each on a fresh copy
CallFill ==
    /\ pc = "fn"
    /\ call.fn = "none"
    /\ call' = [fn |-> "fill", grid |-> grid]
    /\ ret' = [loc \in FillLocs(grid) |-> fill_call(grid, loc)]
    /\ UNCHANGED <<nb, size, spread, grid, chosen, pc, exc, iters, density>>
    /\ UNCHANGED run_vars

FnInit ==
    /\ nb = "none"
    /\ size = 0
    /\ spread = 0
    /\ \/ grid \in TestGrids
       \/ \E n \in FnSizes, sp \in 1..MaxSpread : grid \in FnGrids(n, sp)
    /\ chosen = NoLoc
    /\ pc = "fn"
    /\ exc = "none"
    /\ iters = 0
    /\ density = <<>>
    /\ call = NoCall
    /\ ret = <<>>
    /\ everything = <<>>
    /\ funcs = <<>>
    /\ tally = NoTally
    /\ called = <<>>

FnNext == CallOnBoundary \/ CallIsAdjacent \/ CallChooseNext \/ CallFill

FnSpec == FnInit /\ [][FnNext]_vars

(***************************************************************************)
(* run_all_tests(stem) of the testing notebook.  A name is a sequence of   *)
(* characters; everything is globals(), the names in the order the dict    *)
(* yields them, each bound to a value: something that is not callable, or  *)
(* a function that returns, or a function that raises the exception it is  *)
(* named after.                                                            *)
(***************************************************************************)
\* Most names bound in globals().
MaxGlobals == 4

Names == {<<"a">>, <<"a", "e">>, <<"a", "t">>, <<"t">>}
Stems == {<<>>, <<"a">>, <<"a", "t">>, <<"t">>, <<"x">>}

\* what a global is bound to
Values == {"not_callable", "returns", "AssertionError", "ZeroDivisionError", "SystemExit"}

\* callable(everything[name])
callable(v) == v # "not_callable"

\* name.startswith(stem)
startswith(name, stem) ==
    Len(stem) <= Len(name) /\ SubSeq(name, 1, Len(stem)) = stem

\* the except clause that takes exception e in run_all_tests' try statement:
\* AssertionError, then Exception; SystemExit derives from BaseException
\* only and is taken by neither
except_clause_swapped(e) ==
    IF e \in {"AssertionError", "ZeroDivisionError"} THEN "Exception" ELSE "none"

except_clause(e) ==
    IF e = "AssertionError" THEN "AssertionError"
    ELSE IF e \in {"AssertionError", "ZeroDivisionError"} THEN "Exception"
    ELSE "none"

\* globals() holding n names: a dict, so the names are distinct, each bound
\* to a value
Globals(n) ==
    {[i \in 1..n |-> [name |-> names[i], value |-> values[i]]] :
        names \in {ns \in [1..n -> Names] : \A i, j \in 1..n : i # j => ns[i] # ns[j]},
        values \in [1..n -> Values]}

\* the first loop: funcs holds, in order, the globals (by position in
\* everything) whose name starts with stem and whose value is callable
collect(ev, stem) ==
    SelectSeq([i \in 1..Len(ev) |-> i],
              LAMBDA i : startswith(ev[i].name, stem) /\ callable(ev[i].value))

RunCollect ==
    /\ pc = "run_all_tests"
    /\ funcs' = collect(everything, call.stem)
    /\ tally' = [success |-> 0, failure |-> 0, error |-> 0]
    /\ pc' = "for f in funcs"
    /\ UNCHANGED <<nb, size, spread, grid, chosen, exc, iters, density, call, ret,
                   everything, called>>

\* one iteration of: for f in funcs: try: f() ... except ...
RunFunc ==
    /\ pc = "for f in funcs"
    /\ iters < Len(funcs)
    /\ LET f == funcs[iters + 1]
           does == everything[f].value
       IN  /\ called' = [called EXCEPT ![f] = @ + 1]
           /\ IF does = "returns"
              THEN /\ tally' = [tally EXCEPT !.success = @ + 1]
                   /\ iters' = iters + 1
                   /\ UNCHANGED <<pc, exc, ret>>
              ELSE IF except_clause(does) = "AssertionError"
              THEN /\ tally' = [tally EXCEPT !.failure = @ + 1]
                   /\ ret' = [ret EXCEPT !.stderr = Append(@, does)]
                   /\ iters' = iters + 1
                   /\ UNCHANGED <<pc, exc>>
              ELSE IF except_clause(does) = "Exception"
              THEN /\ tally' = [tally EXCEPT !.error = @ + 1]
                   /\ ret' = [ret EXCEPT !.stderr = Append(@, does)]
                   /\ iters' = iters + 1
                   /\ UNCHANGED <<pc, exc>>
              ELSE /\ pc' = "raised"
                   /\ exc' = does
                   /\ UNCHANGED <<tally, ret, iters>>
    /\ UNCHANGED <<nb, size, spread, grid, chosen, density, call, everything, funcs>>

\* total = success + failure + error; print(...)
RunReport ==
    /\ pc = "for f in funcs"
    /\ iters = Len(funcs)
    /\ ret' = [ret EXCEPT !.stdout =
                  Append(@, <<tally.success + tally.failure + tally.error,
                              tally.failure, tally.error>>)]
    /\ pc' = "done"
    /\ UNCHANGED <<nb, size, spread, grid, chosen, exc, iters, density, call,
                   everything, funcs, tally, called>>

RunInit ==
    /\ nb = "testing"
    /\ size = 0
    /\ spread = 0
    /\ grid = NoGrid
    /\ chosen = NoLoc
    /\ pc = "run_all_tests"
    /\ exc = "none"
    /\ iters = 0
    /\ density = <<>>
    /\ \E stem \in Stems : call = [fn |-> "run_all_tests", stem |-> stem]
    /\ ret = [stdout |-> <<>>, stderr |-> <<>>]
    /\ \E n \in 1..MaxGlobals : everything \in Globals(n)
    /\ funcs = <<>>
    /\ tally = NoTally
    /\ called = [i \in 1..Len(everything) |-> 0]

RunNext == RunCollect \/ RunFunc \/ RunReport

RunSpec == RunInit /\ [][RunNext]_vars

(***************************************************************************)
(* What the claims speak of, stated on the grid itself.                    *)
(***************************************************************************)
ValidArgs == size >= 1 /\ size % 2 = 1 /\ spread >= 1

Boundary(g, c) ==
    c[1] = 0 \/ c[2] = 0 \/ c[1] = g.shape[1] - 1 \/ c[2] = g.shape[2] - 1

Filled(g) == {c \in GridCells(g) : g.at[c] = 0}

Neighbours(g, c) ==
    {<<c[1] - 1, c[2]>>, <<c[1] + 1, c[2]>>, <<c[1], c[2] - 1>>, <<c[1], c[2] + 1>>}
        \cap GridCells(g)

Candidates(g) ==
    {c \in GridCells(g) : g.at[c] > 0 /\ Neighbours(g, c) \cap Filled(g) # {}}

MinCandidates(g) ==
    {c \in Candidates(g) : \A d \in Candidates(g) : g.at[c] <= g.at[d]}

\* position of a cell in the row-major scan
ScanPos(g, c) == c[1] * g.shape[2] + c[2]

(***************************************************************************)
(* C1  For valid arguments (odd size >= 1, spread >= 1) the loop of        *)
(* percolation runs at most size*size - 1 iterations and the call          *)
(* returns.                                                                *)
(***************************************************************************)
C1_Termination ==
    /\ [](ValidArgs /\ pc # "call" => iters <= size * size - 1)
    /\ (ValidArgs /\ pc = "call") ~> (pc = "done")

C1_Witness == ValidArgs /\ pc = "done" /\ size = 5 /\ iters >= 4

(***************************************************************************)
(* C2  percolation returns only with chosen on the boundary and filled;    *)
(* while chosen is off the boundary it cannot return, once chosen is on    *)
(* the boundary no further iteration can run, and no cell other than the   *)
(* last one chosen is ever a filled boundary cell.                         *)
(***************************************************************************)
C2_ExitOnBoundary ==
    pc \in {"growing", "done"} =>
        /\ pc = "done" => Boundary(grid, chosen) /\ grid.at[chosen] = 0
        /\ pc = "growing" /\ Boundary(grid, chosen) => ~ENABLED Step
        /\ pc = "growing" /\ ~Boundary(grid, chosen) => ~ENABLED Return
        /\ \A c \in Filled(grid) : c # chosen => ~Boundary(grid, c)

C2_Witness ==
    /\ pc = "done"
    /\ iters >= 2
    /\ Boundary(grid, chosen)
    /\ chosen[1] = size - 1

(***************************************************************************)
(* C3  The number of filled cells is the number of iterations plus the     *)
(* seed; every iteration fills a cell that was not filled before, adds     *)
(* exactly one filled cell, and no filled cell ever becomes non-zero.      *)
(***************************************************************************)
C3_MonotonicGrowth ==
    /\ [](pc \in {"growing", "done"} => Cardinality(Filled(grid)) = iters + 1)
    /\ [][pc = "growing" =>
            /\ \A c \in Filled(grid) : grid'.at[c] = 0
            /\ (iters' # iters \/ grid' # grid \/ chosen' # chosen) =>
                  /\ iters' = iters + 1
                  /\ grid.at[chosen'] # 0
                  /\ grid'.at[chosen'] = 0
                  /\ Cardinality(Filled(grid')) = Cardinality(Filled(grid)) + 1]_vars

C3_Witness == pc = "growing" /\ iters >= 3 /\ Cardinality(Filled(grid)) = iters + 1

(***************************************************************************)
(* C4  On a grid with a candidate, choose_next returns a location, and     *)
(* that location is a candidate of the least value among the candidates.   *)
(***************************************************************************)
C4_MinimumSelection ==
    (call.fn = "choose_next" /\ Candidates(grid) # {}) =>
        /\ ret.exc = "none"
        /\ ret.loc \in Candidates(grid)
        /\ grid.at[ret.loc] > 0
        /\ \A d \in Candidates(grid) : grid.at[ret.loc] <= grid.at[d]

\* test_choose_next's second array: (2,1), value 1, beats (0,1), value 2
C4_Witness ==
    /\ call.fn = "choose_next"
    /\ grid = np_array(<<<<9, 2, 9>>, <<9, 0, 9>>, <<9, 1, 9>>>>)
    /\ ret.loc = <<2, 1>>

(***************************************************************************)
(* C5  On a grid with a candidate, the locations choose_next may return    *)
(* are exactly the candidates of least value, wherever the scan meets      *)
(* them.                                                                   *)
(***************************************************************************)
C5_AllTiedCandidates ==
    (call.fn = "choose_next" /\ Candidates(grid) # {}) =>
        {o.loc : o \in choose_next(nb, grid)} = MinCandidates(grid)

\* three or more tied cells, the one returned neither first nor last in the scan
C5_Witness ==
    /\ call.fn = "choose_next"
    /\ ret.exc = "none"
    /\ Cardinality(MinCandidates(grid)) >= 3
    /\ \E a, b \in MinCandidates(grid) :
          ScanPos(grid, a) < ScanPos(grid, ret.loc) /\ ScanPos(grid, ret.loc) < ScanPos(grid, b)

(***************************************************************************)
(* C6  random.choice picks a position of the list uniformly; the list      *)
(* choose_next hands it holds each of the k tied candidates at the same    *)
(* number of positions, so each is chosen with probability 1/k:            *)
(* (positions holding c) * k = (positions).                                *)
(***************************************************************************)
C6_UniformTieBreak ==
    (call.fn = "choose_next" /\ Candidates(grid) # {}) =>
        LET candidates == choose_next_candidates(nb, grid)
            positions == random_choice(candidates)
            k == Cardinality(MinCandidates(grid))
        IN  \A c \in MinCandidates(grid) :
               Cardinality({i \in positions : candidates[i] = c}) * k
                   = Cardinality(positions)

\* four tied cells, the last of the scan returned
C6_Witness ==
    /\ call.fn = "choose_next"
    /\ ret.exc = "none"
    /\ Cardinality(MinCandidates(grid)) = 4
    /\ \A a \in MinCandidates(grid) : ScanPos(grid, a) <= ScanPos(grid, ret.loc)

(***************************************************************************)
(* C7  On a grid with no candidate choose_next returns no location: it     *)
(* raises, the exception is none of those percolation raises for invalid   *)
(* arguments, and the grid is as it was.                                   *)
(***************************************************************************)
\* the exceptions percolation raises for arguments that are not valid
ArgErrors ==
    [n \in Notebooks |->
        {o.exc : o \in UNION {percolation_setup(n, a[1], a[2]) :
                                 a \in {b \in SizeArgs \X SpreadArgs :
                                           ~(b[1] >= 1 /\ b[1] % 2 = 1 /\ b[2] >= 1)}}}
            \ {"none"}]

C7_ExhaustedFrontier ==
    (call.fn = "choose_next" /\ Candidates(grid) = {}) =>
        /\ ret.loc = NoLoc
        /\ ret.exc # "none"
        /\ ret.exc \notin ArgErrors[nb]
        /\ grid = call.grid

(***************************************************************************)
(* C8  For a size that is not a positive odd integer or a spread that is   *)
(* not positive, percolation builds no grid and fills no cell: it raises   *)
(* before make_grid is called.                                             *)
(***************************************************************************)
C8_FailFast ==
    ~ValidArgs =>
        /\ pc \in {"call", "raised"}
        /\ grid = NoGrid
        /\ chosen = NoLoc
        /\ pc = "raised" => exc \notin {"ValueError", "IndexError"}

(***************************************************************************)
(* C9  is_adjacent is true exactly of the unfilled cells with a filled     *)
(* neighbour inside the grid.                                              *)
(***************************************************************************)
C9_AdjacencyCorrect ==
    call.fn = "is_adjacent" =>
        \A loc \in GridCells(grid) :
           ret[loc] = (grid.at[loc] > 0 /\ Neighbours(grid, loc) \cap Filled(grid) # {})

(***************************************************************************)
(* C10  on_boundary is true exactly of the locations with row or column 0  *)
(* or N-1, whatever the cells hold, and leaves the grid as it was.         *)
(***************************************************************************)
C10_BoundaryPredicate ==
    call.fn = "on_boundary" =>
        /\ \A loc \in GridCells(grid) :
              ret[loc] = (loc[1] = 0 \/ loc[2] = 0
                            \/ loc[1] = grid.shape[1] - 1 \/ loc[2] = grid.shape[2] - 1)
        /\ grid = call.grid

\* test_on_boundary
C10_Witness ==
    /\ call.fn = "on_boundary"
    /\ grid = np_array(<<<<1, 2, 3>>, <<4, 5, 6>>, <<7, 8, 9>>>>)
    /\ ret[<<0, 0>>]
    /\ ~ret[<<1, 1>>]
    /\ ret[<<2, 0>>]

(***************************************************************************)
(* C11  choose_next leaves the grid as it found it, whether it returns a   *)
(* location or raises: every cell holds after the call the value it held   *)
(* before.                                                                 *)
(***************************************************************************)
C11_ChooseNextFrame ==
    call.fn = "choose_next" =>
        /\ grid.shape = call.grid.shape
        /\ \A c \in GridCells(call.grid) : grid.at[c] = call.grid.at[c]

\* a call that returned a location on a grid with several filled cells
C11_Witness ==
    /\ call.fn = "choose_next"
    /\ ret.exc = "none"
    /\ Cardinality(Filled(call.grid)) >= 2
    /\ grid.at[ret.loc] > 0

(***************************************************************************)
(* C12  fill at a location of the grid makes that cell 0 and leaves the    *)
(* shape and every other cell as they were; filling the same location a    *)
(* second time changes nothing.                                            *)
(***************************************************************************)
C12_FillExactlyOne ==
    call.fn = "fill" =>
        \A loc \in GridCells(call.grid) :
           /\ ret[loc].exc = "none"
           /\ ret[loc].grid.shape = call.grid.shape
           /\ ret[loc].grid.at[loc] = 0
           /\ \A c \in GridCells(call.grid) \ {loc} : ret[loc].grid.at[c] = call.grid.at[c]
           /\ fill_call(ret[loc].grid, loc) = [exc |-> "none", grid |-> ret[loc].grid]

\* a grid with an unfilled cell next to other unfilled cells, filled
C12_Witness ==
    /\ call.fn = "fill"
    /\ call.grid.shape = <<3, 3>>
    /\ call.grid.at[<<1, 2>>] > 0
    /\ call.grid.at[<<1, 1>>] > 0
    /\ ret[<<1, 2>>].grid.at[<<1, 2>>] = 0
    /\ ret[<<1, 2>>].grid.at[<<1, 1>>] > 0

(***************************************************************************)
(* C13  fill at a location with a coordinate below 0 or beyond N-1 fails   *)
(* and changes no cell.                                                    *)
(***************************************************************************)
C13_FillOutOfBounds ==
    call.fn = "fill" =>
        \A loc \in FillLocs(call.grid) \ GridCells(call.grid) :
           /\ ret[loc].exc # "none"
           /\ ret[loc].grid = call.grid

(***************************************************************************)
(* C14  The density a completed run reports is above 0, at most 1, and     *)
(* multiplied by the number of cells gives exactly the number of filled    *)
(* cells.                                                                  *)
(***************************************************************************)
C14_DensityExact ==
    pc = "done" =>
        /\ float_positive(density)
        /\ float_le_one(density)
        /\ float_mul(density, size * size) = float_of_int(Cardinality(Filled(grid)))

(***************************************************************************)
(* C14, as the code has it: the density is a float, the quotient filled /  *)
(* N*N rounded; it is above 0 and at most 1, it is 1.0 exactly when every  *)
(* cell is filled, and multiplied by N*N it gives the number of filled     *)
(* cells or a float next to it, so that rounding the product to an integer *)
(* gives the count.                                                        *)
(***************************************************************************)
C14_DensityRounded ==
    pc = "done" =>
        LET filled == float_of_int(Cardinality(Filled(grid)))
        IN  /\ float_positive(density)
            /\ float_le_one(density)
            /\ (density = float_of_int(1)) <=> (Cardinality(Filled(grid)) = size * size)
            /\ float_mul(density, size * size)
                  \in {filled, float_succ(filled), float_pred(filled)}

\* 7 of 25 cells filled: 7 / 25 * 25 is the float after 7.0
C14_Witness ==
    /\ pc = "done"
    /\ size = 5
    /\ Cardinality(Filled(grid)) = 7
    /\ float_mul(density, size * size) = float_succ(float_of_int(7))

(***************************************************************************)
(* C15  When the loop of percolation is first reached the grid is size x   *)
(* size, its only filled cell is the centre (size div 2, size div 2),      *)
(* which is chosen, and every other cell holds a value in 1..spread; in    *)
(* every state of the run every cell holds a value in 0..spread.           *)
(***************************************************************************)
C15_SeededGrid ==
    /\ (pc = "growing" /\ iters = 0) =>
          /\ grid.shape = <<size, size>>
          /\ DOMAIN grid.at = Cells(size)
          /\ chosen = <<size \div 2, size \div 2>>
          /\ Filled(grid) = {<<size \div 2, size \div 2>>}
          /\ \A c \in Cells(size) \ {chosen} : grid.at[c] \in 1..spread
    /\ \A c \in DOMAIN grid.at : grid.at[c] \in 0..spread

\* a 5 x 5 grid just seeded, holding both the lowest and the highest value
C15_Witness ==
    /\ pc = "growing"
    /\ iters = 0
    /\ size = 5
    /\ spread = 2
    /\ grid.at[<<2, 2>>] = 0
    /\ \E c, d \in Cells(size) : grid.at[c] = 1 /\ grid.at[d] = spread

(***************************************************************************)
(* C16  The cells choose_next's scan considers (unfilled, is_adjacent) can *)
(* be kept incrementally: when the loop is reached they are the unfilled   *)
(* neighbours of the seed; after an iteration that fills L they are the    *)
(* ones before, less L, plus the unfilled neighbours of L; and what        *)
(* choose_next may return is exactly the least-valued members of that set, *)
(* so a driver keeping the set fills the same sequences of cells.          *)
(***************************************************************************)
\* the cells the scan of choose_next takes as candidates
Frontier(n, g) == {c \in GridCells(g) : np_get(g, c) # 0 /\ is_adjacent(n, g, c)}

UnfilledNeighbours(g, c) == {d \in Neighbours(g, c) : g.at[d] > 0}

C16_IncrementalFrontier ==
    /\ [](pc = "growing" =>
            /\ iters = 0 => Frontier(nb, grid) = UnfilledNeighbours(grid, chosen)
            /\ ~on_boundary(grid, chosen) =>
                  LET kept == Frontier(nb, grid)
                  IN  {o.loc : o \in choose_next(nb, grid)} =
                         {c \in kept : \A d \in kept : grid.at[c] <= grid.at[d]})
    /\ [][(pc = "growing" /\ iters' = iters + 1) =>
            Frontier(nb, grid') =
               (Frontier(nb, grid) \ {chosen'}) \cup UnfilledNeighbours(grid', chosen')]_vars

\* an iteration has filled a cell that exposed new cells and left old ones
C16_Witness ==
    /\ pc = "growing"
    /\ iters >= 2
    /\ UnfilledNeighbours(grid, chosen) # {}
    /\ Frontier(nb, grid) \ UnfilledNeighbours(grid, chosen) # {}

(***************************************************************************)
(* C17  In every state of a run that has reached the loop the centre is    *)
(* filled and every filled cell is joined to it by a path of filled cells, *)
(* each step of the path to the cell above, below, left or right.          *)
(***************************************************************************)
\* the filled cells joined to the cells of S by such paths
RECURSIVE FilledRegion(_, _)
FilledRegion(g, S) ==
    LET T == S \cup {d \in Filled(g) : \E c \in S : d \in Neighbours(g, c)}
    IN  IF T = S THEN S ELSE FilledRegion(g, T)

C17_FilledConnected ==
    pc \in {"growing", "done"} =>
        /\ <<size \div 2, size \div 2>> \in Filled(grid)
        /\ FilledRegion(grid, {<<size \div 2, size \div 2>>}) = Filled(grid)

\* a filled region that bends: a filled cell in another row and another
\* column than the centre, two steps or more away
C17_Witness ==
    /\ pc \in {"growing", "done"}
    /\ iters >= 3
    /\ \E c \in Filled(grid) : c[1] # size \div 2 /\ c[2] # size \div 2

(***************************************************************************)
(* C18  On a grid of size 3 or more: whenever the loop condition holds     *)
(* and choose_next is about to be called, no filled cell is on the         *)
(* boundary; when the call has returned, the last cell filled is the one   *)
(* filled cell on the boundary.                                            *)
(***************************************************************************)
C18_BoundaryUntouched ==
    size >= 3 =>
        /\ (pc = "growing" /\ ~on_boundary(grid, chosen)) =>
              {c \in Filled(grid) : Boundary(grid, c)} = {}
        /\ pc = "done" =>
              {c \in Filled(grid) : Boundary(grid, c)} = {chosen}

\* a 5 x 5 run that called choose_next four times or more and returned
\* with its last cell on the right edge
C18_Witness ==
    /\ size = 5
    /\ pc = "done"
    /\ iters >= 4
    /\ chosen[2] = size - 1
    /\ {c \in Filled(grid) : Boundary(grid, c)} = {chosen}

(***************************************************************************)
(* C19  In a run with an odd size >= 1 and a spread >= 1, whenever the     *)
(* loop condition holds some unfilled cell has a filled neighbour, and     *)
(* choose_next returns a location: the run never raises.                   *)
(***************************************************************************)
C19_FrontierNeverEmpty ==
    ValidArgs =>
        /\ pc # "raised"
        /\ exc = "none"
        /\ (pc = "growing" /\ ~on_boundary(grid, chosen)) =>
              /\ Candidates(grid) # {}
              /\ choose_next_candidates(nb, grid) # <<>>
              /\ \A o \in choose_next(nb, grid) : o.exc = "none"

\* spread = 1: every cell ties, and choose_next is about to be called again
C19_Witness ==
    /\ ValidArgs
    /\ spread = 1
    /\ size = 5
    /\ pc = "growing"
    /\ iters >= 3
    /\ ~on_boundary(grid, chosen)

(***************************************************************************)
(* C20  A run on a 1 x 1 grid returns after no iteration with one filled   *)
(* cell and density 1.  A run on an odd size N >= 3 never runs more than   *)
(* (N-2)*(N-2) iterations and returns with at least (N-1)/2 + 1 and at     *)
(* most (N-2)*(N-2) + 1 filled cells and a density below 1.                *)
(***************************************************************************)
C20_FilledCount ==
    (ValidArgs /\ pc \in {"growing", "done"}) =>
        LET filled == Cardinality(Filled(grid))
        IN  /\ size = 1 =>
                  /\ iters = 0
                  /\ filled = 1
                  /\ pc = "done" => density = float_of_int(1)
            /\ size >= 3 =>
                  /\ iters <= (size - 2) * (size - 2)
                  /\ filled <= (size - 2) * (size - 2) + 1
                  /\ pc = "done" =>
                        /\ filled >= (size - 1) \div 2 + 1
                        /\ float_le_one(density)
                        /\ density # float_of_int(1)

\* a 5 x 5 run that filled the whole interior before it reached the edge
C20_Witness ==
    /\ ValidArgs
    /\ pc = "done"
    /\ size = 5
    /\ iters = (size - 2) * (size - 2)
    /\ Cardinality(Filled(grid)) = (size - 2) * (size - 2) + 1

(***************************************************************************)
(* C21  Every iteration of the loop fills a cell that, before the fill,    *)
(* was unfilled, had a filled cell above, below, left or right of it, and  *)
(* held the least value of all such cells; every other cell holds after    *)
(* the iteration the value it held before.                                 *)
(***************************************************************************)
C21_IterationEffect ==
    [][(pc = "growing" /\ iters' = iters + 1) =>
          /\ grid.at[chosen'] > 0
          /\ Neighbours(grid, chosen') \cap Filled(grid) # {}
          /\ \A d \in Candidates(grid) : grid.at[chosen'] <= grid.at[d]
          /\ grid'.at[chosen'] = 0
          /\ grid'.shape = grid.shape
          /\ \A c \in GridCells(grid) \ {chosen'} : grid'.at[c] = grid.at[c]]_vars

\* iterations have run and passed over a candidate: an unfilled cell of
\* value above 1 that was next to the filled region before the last fill
C21_Witness ==
    /\ pc = "growing"
    /\ iters >= 2
    /\ size = 5
    /\ \E d \in Candidates(grid) :
          /\ grid.at[d] > 1
          /\ d \notin Neighbours(grid, chosen)

\* the globals run_all_tests(stem) is to run, as positions in everything:
\* the callables whose name has stem as a prefix
Found(ev, stem) ==
    {i \in 1..Len(ev) :
        /\ ev[i].value # "not_callable"
        /\ \E k \in 0..Len(ev[i].name) : SubSeq(ev[i].name, 1, k) = stem}

\* how many of the globals in a set are bound to one of the given values
Bound(ev, is, values) == Cardinality({i \in is : ev[i].value \in values})

(***************************************************************************)
(* C22, as stated.  When run_all_tests(stem) is over, every global         *)
(* callable whose name starts with stem has been called exactly once and   *)
(* nothing else has been called, whatever the functions raised; every call *)
(* is counted once, as a success, as a failure (AssertionError) or as an   *)
(* error (any other exception); and the line printed reports the number of *)
(* functions found, the failures and the errors.                           *)
(***************************************************************************)
C22_RunAllTests ==
    pc \in {"done", "raised"} =>
        LET found == Found(everything, call.stem)
        IN  /\ \A i \in 1..Len(everything) :
                   called[i] = IF i \in found THEN 1 ELSE 0
            /\ tally.success = Bound(everything, found, {"returns"})
            /\ tally.failure = Bound(everything, found, {"AssertionError"})
            /\ tally.error = Bound(everything, found, {"ZeroDivisionError", "SystemExit"})
            /\ ret.stdout = <<<<Cardinality(found), tally.failure, tally.error>>>>

(***************************************************************************)
(* C22, amended.  The statement holds of the exceptions that derive from   *)
(* Exception.  A run in which no function found raises anything else ends  *)
(* with every function found called exactly once, nothing else called,     *)
(* every call counted once (success, failure for AssertionError, error for *)
(* the other exceptions) and the line "found, failures, errors" printed.   *)
(* A function found that raises an exception outside Exception             *)
(* (SystemExit) ends the run: the exception leaves run_all_tests, the      *)
(* functions after it are not called and nothing is reported.              *)
(***************************************************************************)
C22_RunAllTestsCaught ==
    LET found == Found(everything, call.stem)
    IN  /\ pc = "done" =>
              /\ Bound(everything, found, {"SystemExit"}) = 0
              /\ \A i \in 1..Len(everything) :
                     called[i] = IF i \in found THEN 1 ELSE 0
              /\ tally.success = Bound(everything, found, {"returns"})
              /\ tally.failure = Bound(everything, found, {"AssertionError"})
              /\ tally.error = Bound(everything, found, {"ZeroDivisionError"})
              /\ ret.stdout = <<<<Cardinality(found), tally.failure, tally.error>>>>
              /\ Len(ret.stderr) = tally.failure + tally.error
        /\ pc = "raised" =>
              /\ exc = "SystemExit"
              /\ ret.stdout = <<>>
              /\ \E f \in found :
                     /\ everything[f].value = "SystemExit"
                     /\ \A i \in 1..Len(everything) :
                            called[i] = IF i \in found /\ i <= f THEN 1 ELSE 0
                     /\ LET before == {i \in found : i < f}
                        IN  /\ tally.success = Bound(everything, before, {"returns"})
                            /\ tally.failure = Bound(everything, before, {"AssertionError"})
                            /\ tally.error = Bound(everything, before, {"ZeroDivisionError"})

\* C22: the notebook's own run, with one more global that the stem leaves
\* out: a function that passes, one that asserts and one that raises have
\* run, in that order, and "3 tests, 1 failures, 1 errors" is printed
C22_Witness ==
    /\ pc = "done"
    /\ call.stem = <<"a">>
    /\ Len(everything) = 4
    /\ ret.stdout = <<<<3, 1, 1>>>>
    /\ ret.stderr = <<"AssertionError", "ZeroDivisionError">>
    /\ \E i \in 1..4 : called[i] = 0 /\ everything[i].value = "SystemExit"

====
